---- MODULE Spec2Model ----
(***************************************************************************)
(* Model of wyrm.types.RingBuffer and wyrm.types.Data                      *)
(* (src/wyrm/types.py).  Spec is the RingBuffer under append and get,      *)
(* SpecData a Data instance under construction, copy, in-place changes of  *)
(* the objects it refers to, and ==.                                       *)
(*                                                                         *)
(* An ndarray is a record [shape, flat]: its shape and its elements in     *)
(* C (row-major) order.  Slicing along the leading axis, slice assignment  *)
(* with numpy's broadcasting, np.empty, np.concatenate and .copy() are     *)
(* modelled by what they do on that representation:                        *)
(*   - a[lo:hi] = v raises ValueError exactly when v's shape cannot be     *)
(*     broadcast to the shape of a[lo:hi]; the rule reads shapes only, so  *)
(*     it applies to slices of zero rows as well; a source with more       *)
(*     dimensions than the destination first loses unit dimensions on the  *)
(*     left;                                                               *)
(*   - np.empty hands back memory of arbitrary contents, fixed from then   *)
(*     on;                                                                 *)
(*   - an array handed to the caller either owns its memory or is a view   *)
(*     of the buffer's store, read through the store's current contents.   *)
(* append has no shape check of its own: a batch is refused only where the *)
(* slice assignment raises.                                                *)
(***************************************************************************)
EXTENDS Integers, Sequences, FiniteSets, TLC

VARIABLES length, data, full, idx, ret, last, stream, clean, appended, written

\* the RingBuffer and what is recorded about its calls
rvars == <<length, data, full, idx, ret, last, stream, clean, appended, written>>

VARIABLES heap, args, made, dat, dat2, kwargs, eqret, dlast, mutations

\* the Data instances, the objects they refer to and what is recorded about
\* their calls
dvars == <<heap, args, made, dat, dat2, kwargs, eqret, dlast, mutations>>

vars == <<rvars, dvars>>

(* ------------------------------ bounds -------------------------------- *)
MaxLength == 2
MaxBatch == 3
MaxStream == 4

\* scalar values stored in the arrays
Vals == {0, 1}
\* the trailing shapes (shape without the leading axis) of incoming batches
TrailingShapes == {<<>>, <<1>>}

(* ------------------------------ ndarrays ------------------------------ *)
Min(a, b) == IF a < b THEN a ELSE b
Max(a, b) == IF a > b THEN a ELSE b

RECURSIVE Prod(_)
Prod(s) == IF s = <<>> THEN 1 ELSE Head(s) * Prod(Tail(s))

\* self.data = None
None == [shape |-> <<>>, flat |-> <<>>]

\* len(a): the size of the leading axis
len(a) == Head(a.shape)

\* a.shape[1:]
RecordShape(a) == Tail(a.shape)

\* number of scalars in one record of a
RowSize(a) == Prod(Tail(a.shape))

\* Python's normalisation of a slice bound against an axis of size n
Norm(i, n) == IF i < 0 THEN Max(i + n, 0) ELSE Min(i, n)

\* a[start:stop] along the leading axis
Slice(a, start, stop) ==
    LET lo == Norm(start, len(a))
        hi == Max(Norm(stop, len(a)), lo)
    IN  [shape |-> <<hi - lo>> \o Tail(a.shape),
         flat  |-> SubSeq(a.flat, lo * RowSize(a) + 1, hi * RowSize(a))]

\* np.concatenate([a, b], axis=0) of arrays with the same record shape
Concatenate(a, b) ==
    [shape |-> <<len(a) + len(b)>> \o Tail(a.shape), flat |-> a.flat \o b.flat]

\* np.array([])
EmptyArray == [shape |-> <<0>>, flat |-> <<>>]

\* assignment strips unit dimensions from the left of a source that has more
\* dimensions than the destination
RECURSIVE StripLeft(_, _)
StripLeft(vs, nd) ==
    IF Len(vs) > nd /\ Head(vs) = 1 THEN StripLeft(Tail(vs), nd) ELSE vs

\* numpy's broadcasting rule: source shape vs can be broadcast to shape ts
CanBroadcast(vs, ts) ==
    LET v == StripLeft(vs, Len(ts))
        o == Len(ts) - Len(v)
    IN  /\ Len(v) <= Len(ts)
        /\ \A j \in 1..Len(v) : v[j] = 1 \/ v[j] = ts[o + j]

Stride(s, j) == Prod(SubSeq(s, j + 1, Len(s)))

Coord(p, s, j) == (p \div Stride(s, j)) % s[j]

\* flat position in the source (of shape v) read for flat position p of the
\* destination (of shape ts)
RECURSIVE SourcePos(_, _, _, _)
SourcePos(v, ts, p, j) ==
    IF j > Len(v) THEN 0
    ELSE (IF v[j] = 1 THEN 0 ELSE Coord(p, ts, Len(ts) - Len(v) + j) * Stride(v, j))
         + SourcePos(v, ts, p, j + 1)

\* a[start:stop] = value; ok is FALSE when numpy raises ValueError (and a is
\* then untouched)
SetRows(a, start, stop, value) ==
    LET lo == Norm(start, len(a))
        hi == Max(Norm(stop, len(a)), lo)
        ts == <<hi - lo>> \o Tail(a.shape)
        v  == StripLeft(value.shape, Len(ts))
        rs == RowSize(a)
    IN  IF ~CanBroadcast(value.shape, ts)
        THEN [ok |-> FALSE, arr |-> a]
        ELSE [ok |-> TRUE,
              arr |-> [shape |-> a.shape,
                       flat  |-> [p \in 1..Len(a.flat) |->
                                    IF lo * rs < p /\ p <= hi * rs
                                    THEN value.flat[SourcePos(v, ts, p - 1 - lo * rs, 1) + 1]
                                    ELSE a.flat[p]]]]

\* the arrays a caller may pass to append
Batches ==
    UNION { { [shape |-> <<n>> \o t, flat |-> f] : f \in [1..(n * Prod(t)) -> Vals] }
            : n \in 0..MaxBatch, t \in TrailingShapes }

\* the records of a, oldest first, each as the sequence of its scalars
Records(a) ==
    [k \in 1..len(a) |-> SubSeq(a.flat, (k - 1) * RowSize(a) + 1, k * RowSize(a))]

(* ----------------------------- RingBuffer ----------------------------- *)
\* what np.empty may hand back for the store allocated for batch b
Uninitialized(L, b) == [1..(L * RowSize(b)) -> Vals]

\* variant of IsEmpty: the early return for an empty batch is missing
IsEmptyNever(b) == FALSE

\* "if len(data) == 0: return"
IsEmpty(b) == len(b) = 0

\* "if self.data is None"
Unallocated(d) == d = None

\* variant of Allocate: buffershape[0] is not set to self.length, the store
\* gets the shape of the first batch
AllocateBatchShape(d, L, b, g) ==
    IF Unallocated(d)
    THEN [shape |-> b.shape,
          flat  |-> [p \in 1..Prod(b.shape) |-> g[((p - 1) % Len(g)) + 1]]]
    ELSE d

\* self.data = np.empty([self.length] + data.shape[1:]), memory contents g
Allocate(d, L, b, g) ==
    IF Unallocated(d) THEN [shape |-> <<L>> \o Tail(b.shape), flat |-> g] ELSE d

\* variant of Truncate: keeps the oldest records, data[:self.length]
TruncateHead(b, L) == IF len(b) > L THEN Slice(b, 0, L) ELSE b

\* "if len(data) > self.length: data = data[-self.length:]"
Truncate(b, L) == IF len(b) > L THEN Slice(b, -L, len(b)) ELSE b

\* variant of NoWrap: <= instead of <
NoWrapOrExactFit(i, b, L) == i + len(b) <= L

\* "if self.idx + len(data) < self.length"
NoWrap(i, b, L) == i + len(b) < L

\* variant of WriteNoWrap: self.idx is not advanced
WriteNoWrapKeepsIdx(d, f, i, b) ==
    LET w == SetRows(d, i, i + len(b), b)
    IN  IF w.ok
        THEN [data |-> w.arr, full |-> f, idx |-> i, raised |-> FALSE]
        ELSE [data |-> d, full |-> f, idx |-> i, raised |-> TRUE]

\* variant of WriteNoWrap: the branch clears self.full
WriteNoWrapClearsFull(d, f, i, b) ==
    LET w == SetRows(d, i, i + len(b), b)
    IN  IF w.ok
        THEN [data |-> w.arr, full |-> FALSE, idx |-> i + len(b), raised |-> FALSE]
        ELSE [data |-> d, full |-> f, idx |-> i, raised |-> TRUE]

\* the branch that writes without wrapping around the buffer's end
WriteNoWrap(d, f, i, b) ==
    LET w == SetRows(d, i, i + len(b), b)
    IN  IF w.ok
        THEN [data |-> w.arr, full |-> f, idx |-> i + len(b), raised |-> FALSE]
        ELSE [data |-> d, full |-> f, idx |-> i, raised |-> TRUE]

\* variant of WriteWrap: the head slots get data[:l2] instead of data[l1:]
WriteWrapHeadAgain(d, f, i, b, L) ==
    LET l1 == L - i
        l2 == len(b) - l1
        w1 == SetRows(d, -l1, len(d), Slice(b, 0, l1))
        w2 == SetRows(w1.arr, 0, l2, Slice(b, 0, l2))
    IN  IF ~w1.ok
        THEN [data |-> d, full |-> TRUE, idx |-> i, raised |-> TRUE]
        ELSE IF ~w2.ok
        THEN [data |-> w1.arr, full |-> TRUE, idx |-> i, raised |-> TRUE]
        ELSE [data |-> w2.arr, full |-> TRUE, idx |-> l2, raised |-> FALSE]

\* variant of WriteWrap: self.full is set only when records overflow to the
\* head (l2 > 0)
WriteWrapFullOnOverflow(d, f, i, b, L) ==
    LET l1 == L - i
        l2 == len(b) - l1
        w1 == SetRows(d, -l1, len(d), Slice(b, 0, l1))
        w2 == SetRows(w1.arr, 0, l2, Slice(b, l1, len(b)))
    IN  IF ~w1.ok
        THEN [data |-> d, full |-> f \/ l2 > 0, idx |-> i, raised |-> TRUE]
        ELSE IF ~w2.ok
        THEN [data |-> w1.arr, full |-> f \/ l2 > 0, idx |-> i, raised |-> TRUE]
        ELSE [data |-> w2.arr, full |-> f \/ l2 > 0, idx |-> l2, raised |-> FALSE]

\* variant of WriteWrap: self.idx = l1 instead of l2
WriteWrapIdxL1(d, f, i, b, L) ==
    LET l1 == L - i
        l2 == len(b) - l1
        w1 == SetRows(d, -l1, len(d), Slice(b, 0, l1))
        w2 == SetRows(w1.arr, 0, l2, Slice(b, l1, len(b)))
    IN  IF ~w1.ok
        THEN [data |-> d, full |-> TRUE, idx |-> i, raised |-> TRUE]
        ELSE IF ~w2.ok
        THEN [data |-> w1.arr, full |-> TRUE, idx |-> i, raised |-> TRUE]
        ELSE [data |-> w2.arr, full |-> TRUE, idx |-> l1 % L, raised |-> FALSE]

\* the branch that wraps around the buffer's end
WriteWrap(d, f, i, b, L) ==
    LET l1 == L - i
        l2 == len(b) - l1
        w1 == SetRows(d, -l1, len(d), Slice(b, 0, l1))
        w2 == SetRows(w1.arr, 0, l2, Slice(b, l1, len(b)))
    IN  IF ~w1.ok
        THEN [data |-> d, full |-> TRUE, idx |-> i, raised |-> TRUE]
        ELSE IF ~w2.ok
        THEN [data |-> w1.arr, full |-> TRUE, idx |-> i, raised |-> TRUE]
        ELSE [data |-> w2.arr, full |-> TRUE, idx |-> l2, raised |-> FALSE]

\* RingBuffer.append(b) on a buffer in state (L, d, f, i); raised tells
\* whether the call ended in a ValueError
AppendResult(L, d, f, i, b, g) ==
    IF IsEmpty(b)
    THEN [data |-> d, full |-> f, idx |-> i, raised |-> FALSE]
    ELSE LET d1 == Allocate(d, L, b, g)
             b1 == Truncate(b, L)
         IN  IF NoWrap(i, b1, L)
             THEN WriteNoWrap(d1, f, i, b1)
             ELSE WriteWrap(d1, f, i, b1, L)

\* an array object handed to the caller: one that owns its memory, or a view
\* of rows lo..hi of the buffer's store
Own(a) == [owns |-> TRUE, lo |-> 0, hi |-> 0, arr |-> a]
View(lo, hi) == [owns |-> FALSE, lo |-> lo, hi |-> hi, arr |-> None]

\* the value the caller reads from an array object while the store is d
Value(r, d) == IF r.owns THEN r.arr ELSE Slice(d, r.lo, r.hi)

\* variant of GetResult: the full branch is missing
GetResultNeverFull(d, f, i) ==
    IF Unallocated(d) THEN Own(EmptyArray)
    ELSE Own(Slice(d, 0, i))

\* variant of GetResult: the .copy() is missing, the caller gets a view of
\* the store
GetResultView(d, f, i) ==
    IF Unallocated(d) THEN Own(EmptyArray)
    ELSE IF f THEN Own(Concatenate(Slice(d, i, len(d)), Slice(d, 0, i)))
    ELSE View(0, i)

\* the object RingBuffer.get() returns
GetResult(d, f, i) ==
    IF Unallocated(d) THEN Own(EmptyArray)
    ELSE IF f THEN Own(Concatenate(Slice(d, i, len(d)), Slice(d, 0, i)))
    ELSE Own(Slice(d, 0, i))

\* variant of GetState: get() consumes what it returns
GetStateConsuming(d, f, i) == [data |-> d, full |-> FALSE, idx |-> 0]

\* the buffer's fields after RingBuffer.get()
GetState(d, f, i) == [data |-> d, full |-> f, idx |-> i]

(* -------------------------------- Data --------------------------------- *)
\* Python objects live on a heap: a sequence of cells, an object's identity
\* being its index.  An ndarray cell has a shape and its elements (row-major),
\* a list cell has its items: strings, or the addresses of other cells.  The
\* attribute dictionary of a Data instance is a function from attribute
\* names to addresses.
MaxDim == 1
MaxAxisLen == 2
MaxMutations == 1

\* the elements of a data array: floats, "nan" being the IEEE not-a-number
DVals == {"0.0", "1.0", "nan"}

Array(s, f) == [k |-> "ndarray", shape |-> s, flat |-> f, items |-> <<>>]
StrList(xs) == [k |-> "strs", shape |-> <<>>, flat |-> <<>>, items |-> xs]
RefList(xs) == [k |-> "refs", shape |-> <<>>, flat |-> <<>>, items |-> xs]

\* np.full(s, v)
Full(s, v) == Array(s, [p \in 1..Prod(s) |-> v])

\* the labels of an axis of n points, the names of n axes, the units of n axes
Labels(n) == [j \in 1..n |-> "t" \o ToString(j)]
Names(n) == [j \in 1..n |-> "name" \o ToString(j)]
Units(n) == [j \in 1..n |-> "unit" \o ToString(j)]

Shapes(n) == UNION {[1..m -> 0..MaxAxisLen] : m \in 0..n}
Lens(n) == UNION {[1..m -> 0..MaxAxisLen] : m \in 0..n}

\* len(x) of the object in the cell c
CellLen(c) == IF c.k = "ndarray" THEN c.shape[1] ELSE Len(c.items)

\* np.array(x) of the object in the cell c, a sequence of labels or an array
AsArray(c) == IF c.k = "ndarray" THEN Array(c.shape, c.flat)
              ELSE Array(<<Len(c.items)>>, c.items)

\* the first address after the heap h
Fresh(h) == Len(h) + 1

\* Data.__init__'s assert: is the number of dimensions of data that of the
\* axes, of the names and of the units?
CountsAgreeButUnits(h, a) ==
    /\ Len(h[a.data].shape) = Len(h[a.axes].items)
    /\ Len(h[a.axes].items) = Len(h[a.names].items)

CountsAgree(h, a) ==
    /\ Len(h[a.data].shape) = Len(h[a.axes].items)
    /\ Len(h[a.axes].items) = Len(h[a.names].items)
    /\ Len(h[a.names].items) = Len(h[a.units].items)

\* Data.__init__'s loop: has every axis the length of its dimension of data?
AxesAgree(h, a) ==
    \A i \in 1..Len(h[a.data].shape) :
        h[a.data].shape[i] = CellLen(h[h[a.axes].items[i]])

\* Data(data, axes, names, units) over the heap h, a the addresses of the four
\* arguments: the heap and the instance's attributes after the call, or raised
Construct(h, a) ==
    IF ~CountsAgree(h, a) \/ ~AxesAgree(h, a)
    THEN [raised |-> TRUE, heap |-> h, dict |-> <<>>]
    ELSE LET n == Len(h[a.axes].items)
             arrays == [i \in 1..n |-> AsArray(h[h[a.axes].items[i]])]
             list == RefList([i \in 1..n |-> Len(h) + i])
         IN  [raised |-> FALSE,
              heap |-> (h \o arrays) \o <<list>>,
              dict |-> [x \in {"data", "axes", "names", "units"} |->
                           CASE x = "data" -> a.data
                             [] x = "axes" -> Len(h) + n + 1
                             [] x = "names" -> a.names
                             [] x = "units" -> a.units]]

\* the attributes of an instance in the order in which they were set
Attributes == <<"data", "axes", "names", "units", "extra">>

\* copy.copy(self) followed by setattr(obj, name, value) for every override:
\* a new instance whose attributes refer to the objects of self, the
\* overridden ones to the values given
ShallowIgnoringOverrides(dict, kw) == dict

ShallowWithOverrides(dict, kw) ==
    [x \in DOMAIN dict \cup DOMAIN kw |-> IF x \in DOMAIN kw THEN kw[x] ELSE dict[x]]

\* copy.deepcopy of the object at address a: every object reachable from it
\* is duplicated once (memo maps an object to its duplicate), strings are
\* shared.  A list is entered in memo before its items are copied.
RECURSIVE DeepCopyCell(_, _, _)
RECURSIVE DeepCopyItems(_, _, _, _)
DeepCopyItems(h, memo, xs, acc) ==
    IF xs = <<>> THEN [heap |-> h, memo |-> memo, items |-> acc]
    ELSE LET r == DeepCopyCell(h, memo, Head(xs))
         IN  DeepCopyItems(r.heap, r.memo, Tail(xs), Append(acc, r.addr))

DeepCopyCell(h, memo, a) ==
    IF a \in DOMAIN memo THEN [heap |-> h, memo |-> memo, addr |-> memo[a]]
    ELSE IF h[a].k = "refs"
    THEN LET y == Fresh(h)
             r == DeepCopyItems(Append(h, RefList(<<>>)), memo @@ (a :> y),
                                h[a].items, <<>>)
         IN  [heap |-> [r.heap EXCEPT ![y] = RefList(r.items)],
              memo |-> r.memo, addr |-> y]
    ELSE [heap |-> Append(h, h[a]), memo |-> memo @@ (a :> Fresh(h)),
          addr |-> Fresh(h)]

\* copy.deepcopy(obj) of an instance: its attributes are copied in order
RECURSIVE DeepCopyAttrs(_, _, _, _, _)
DeepCopyAttrs(h, memo, dict, names, acc) ==
    IF names = <<>> THEN [heap |-> h, dict |-> acc]
    ELSE IF Head(names) \notin DOMAIN dict
    THEN DeepCopyAttrs(h, memo, dict, Tail(names), acc)
    ELSE LET r == DeepCopyCell(h, memo, dict[Head(names)])
         IN  DeepCopyAttrs(r.heap, r.memo, dict, Tail(names),
                           acc @@ (Head(names) :> r.addr))

DeepCopyNone(h, dict) == [heap |-> h, dict |-> dict]

DeepCopy(h, dict) == DeepCopyAttrs(h, <<>>, dict, Attributes, <<>>)

\* self.copy(**kwargs) over the heap h: the heap after the call, the
\* attributes of the instance returned and those of self
CopyResult(h, dict, kw) ==
    LET r == DeepCopy(h, ShallowWithOverrides(dict, kw))
    IN  [heap |-> r.heap, dict |-> r.dict, self |-> dict]

\* x == y on two elements of arrays: a not-a-number equals nothing
ElemEq(x, y) == x = y /\ x # "nan"

\* (a == b).all() on two arrays of the same shape
AllEq(a, b) == \A p \in 1..Len(a.flat) : ElemEq(a.flat[p], b.flat[p])

\* np.array_equal(a, b)
ArrayEqual(a, b) == a.shape = b.shape /\ AllEq(a, b)

\* is item i of the axes at address a an ndarray (has it a .shape)?
HasShape(h, a, i) == h[a].k = "refs" /\ h[h[a].items[i]].k = "ndarray"

\* the array that is item i of the axes at address a
Axis(h, a, i) == h[h[a].items[i]]

\* an operand of ==: an object with an attribute dictionary, or one without
\* (a number, None)
Object(dict) == [object |-> TRUE, dict |-> dict]
Scalar == [object |-> FALSE, dict |-> <<>>]

\* self.__eq__(other) over the heap h: "True", "False", or "raised" where the
\* evaluation of the conjunction raises
EqResult(h, self, other) ==
    IF ~other.object THEN "raised"
    ELSE LET o == other.dict
             n == CellLen(h[self.axes])
         IN  IF DOMAIN self # DOMAIN o THEN "False"
             ELSE IF ~ArrayEqual(AsArray(h[self.data]), AsArray(h[o.data])) THEN "False"
             ELSE IF n # CellLen(h[o.axes]) THEN "False"
             ELSE IF \E i \in 1..n : ~HasShape(h, self.axes, i) \/ ~HasShape(h, o.axes, i)
                  THEN "raised"
             ELSE IF \E i \in 1..n : Axis(h, self.axes, i).shape # Axis(h, o.axes, i).shape
                  THEN "False"
             ELSE IF \E i \in 1..n : ~AllEq(Axis(h, self.axes, i), Axis(h, o.axes, i))
                  THEN "False"
             ELSE IF h[self.names].items # h[o.names].items THEN "False"
             ELSE IF h[self.units].items # h[o.units].items THEN "False"
             ELSE "True"

\* the object in the cell c after the caller changes it in place:
\* x.flat[0] = v on an array, x.append("more") on a list of strings, x.pop()
\* on a list of objects
CanChange(c) == IF c.k = "strs" THEN TRUE
                ELSE IF c.k = "refs" THEN c.items # <<>>
                ELSE c.flat # <<>>

Changed(c) ==
    IF c.k = "strs" THEN StrList(Append(c.items, "more"))
    ELSE IF c.k = "refs" THEN RefList(SubSeq(c.items, 1, Len(c.items) - 1))
    ELSE Array(c.shape, [c.flat EXCEPT ![1] = IF @ = "0.0" THEN "1.0" ELSE "0.0"])

(* ----------------------------- the machine ---------------------------- *)
\* last: the last call: the size and the record shape of its batch, whether
\*       that is the record shape of the store, whether the call raised, and,
\*       for a get(), whether the call before it was a get() too
\* stream: the records of all batches appended so far, while clean
\* clean: every non-empty batch so far had the store's record shape
\* ret: the object returned by the last get()
\* appended: the number of records passed to the appends that returned
\*       normally, counted up to length (min(N, length))
\* written: W mod length, W the sum of min(batch size, length) over the
\*       appends that returned normally
NoDataCall == [op |-> "init", a |-> 0, x |-> "", y |-> ""]

\* no Data instance exists and none is being made
NoData ==
    /\ heap = <<>>
    /\ args = [data |-> 0, axes |-> 0, names |-> 0, units |-> 0]
    /\ made = "no"
    /\ dat = <<>>
    /\ dat2 = <<>>
    /\ kwargs = <<>>
    /\ eqret = "none"
    /\ dlast = NoDataCall
    /\ mutations = 0

NoCall == [op |-> "init", n |-> 0, shape |-> <<>>, matched |-> TRUE, raised |-> FALSE,
           again |-> FALSE]

Init ==
    /\ length \in 1..MaxLength
    /\ data = None
    /\ full = FALSE
    /\ idx = 0
    /\ ret = Own(None)
    /\ last = NoCall
    /\ stream = <<>>
    /\ clean = TRUE
    /\ appended = 0
    /\ written = 0
    /\ NoData

\* the batch b has the record shape of the store (any, before allocation)
Matches(b) == Unallocated(data) \/ RecordShape(b) = RecordShape(data)

\* the buffer's fields after append(b) when np.empty hands back g
After(b, g) == AppendResult(length, data, full, idx, b, g)

\* the memory contents np.empty may hand back in append(b) in this state
Garbage(b) ==
    IF Unallocated(data) /\ ~IsEmpty(b) THEN Uninitialized(length, b) ELSE {<<>>}

append(b) ==
    /\ (clean /\ Matches(b)) => Len(stream) + len(b) <= MaxStream
    /\ \E g \in Garbage(b) :
         \E r \in {After(b, g)} :
             /\ data' = r.data
             /\ full' = r.full
             /\ idx' = r.idx
             /\ last' = [op |-> "append", n |-> len(b), shape |-> RecordShape(b),
                         matched |-> Matches(b), raised |-> r.raised, again |-> FALSE]
    /\ appended' = IF last'.raised THEN appended ELSE Min(appended + len(b), length)
    /\ written' = IF last'.raised THEN written
                  ELSE (written + Min(len(b), length)) % length
    /\ clean' = (clean /\ (IsEmpty(b) \/ Matches(b)))
    /\ stream' = IF ~clean' THEN <<>>
                 ELSE IF Matches(b) THEN stream \o Records(b)
                 ELSE stream
    /\ UNCHANGED <<length, ret>>
    /\ UNCHANGED dvars

get ==
    LET s == GetState(data, full, idx)
    IN  /\ ret' = GetResult(data, full, idx)
        /\ data' = s.data
        /\ full' = s.full
        /\ idx' = s.idx
        /\ last' = [NoCall EXCEPT !.op = "get", !.again = (last.op = "get")]
        /\ UNCHANGED <<length, stream, clean, appended, written>>
        /\ UNCHANGED dvars

Next ==
    \/ \E b \in Batches : append(b)
    \/ get

Spec == Init /\ [][Next]_vars

(* --------------------------- the Data machine ------------------------- *)
\* heap: the objects
\* args: the addresses of the arguments of Data(data, axes, names, units)
\* made: "no" before the constructor ran, "raised" if it raised, "dat" when
\*       the instance dat exists, "dat2" when dat2 = dat.copy(**kwargs) too
\* dat, dat2: the attribute dictionaries of the two instances
\* kwargs: the overrides passed to copy, attribute name to address
\* eqret: what the last == returned
\* dlast: the last call: for an in-place change the address a changed, for
\*       x == y the two operands
\* mutations: the number of in-place changes made by the caller
\* A behaviour is: the caller builds the arguments, constructs dat, copies it
\* once, changes objects in place, and ends with one comparison.
NoRing ==
    /\ length = 1
    /\ data = None
    /\ full = FALSE
    /\ idx = 0
    /\ ret = Own(None)
    /\ last = NoCall
    /\ stream = <<>>
    /\ clean = TRUE
    /\ appended = 0
    /\ written = 0

InitData ==
    /\ NoRing
    /\ \E s \in Shapes(MaxDim), v \in DVals, al \in Lens(MaxDim + 1),
          nn \in 0..(MaxDim + 1), nu \in 0..(MaxDim + 1) :
         heap = <<Full(s, v), StrList(Names(nn)), StrList(Units(nu)),
                  RefList([i \in 1..Len(al) |-> 4 + i])>>
                \o [i \in 1..Len(al) |-> StrList(Labels(al[i]))]
    /\ args = [data |-> 1, names |-> 2, units |-> 3, axes |-> 4]
    /\ made = "no"
    /\ dat = <<>>
    /\ dat2 = <<>>
    /\ kwargs = <<>>
    /\ eqret = "none"
    /\ dlast = NoDataCall
    /\ mutations = 0

\* the values the caller passes as overrides to dat.copy: for one attribute,
\* an object equal to the one dat has or one that differs from it, with or
\* without a new attribute "extra"; cells are the new objects, kw the
\* keyword arguments
One(h, x, c) == [cells |-> <<c>>, kw |-> x :> Fresh(h)]

ListOf(h, x, cs) ==
    [cells |-> cs \o <<RefList([i \in 1..Len(cs) |-> Len(h) + i])>>,
     kw |-> x :> (Len(h) + Len(cs) + 1)]

WithExtra(h, o) ==
    [cells |-> Append(o.cells, StrList(<<"note">>)),
     kw |-> o.kw @@ ("extra" :> (Len(h) + Len(o.cells) + 1))]

Overrides(h, dict) ==
    LET shape == h[dict.data].shape
        n == Len(h[dict.axes].items)
        own == [i \in 1..n |-> Axis(h, dict.axes, i)]
        S == {[cells |-> <<>>, kw |-> <<>>]}
             \cup {One(h, "data", Full(sh, v)) :
                      sh \in {shape, Append(shape, 1)}, v \in DVals}
             \cup {ListOf(h, "axes", cs) :
                      cs \in {own,
                              [i \in 1..n |-> StrList(own[i].flat)],
                              Append(own, Array(<<1>>, Labels(1))),
                              [i \in 1..n |-> Full(own[i].shape, "t0")]}}
             \cup {One(h, "names", StrList(xs)) :
                      xs \in {h[dict.names].items, <<"other">>}}
             \cup {One(h, "units", StrList(xs)) :
                      xs \in {h[dict.units].items, <<"other">>}}
    IN  S \cup {WithExtra(h, o) : o \in S}

construct ==
    /\ made = "no"
    /\ LET r == Construct(heap, args)
       IN  /\ heap' = r.heap
           /\ dat' = r.dict
           /\ made' = IF r.raised THEN "raised" ELSE "dat"
    /\ dlast' = [NoDataCall EXCEPT !.op = "construct"]
    /\ UNCHANGED <<args, dat2, kwargs, eqret, mutations>>
    /\ UNCHANGED rvars

copy ==
    /\ made = "dat"
    /\ dlast.op # "eq"
    /\ \E o \in Overrides(heap, dat) :
         LET r == CopyResult(heap \o o.cells, dat, o.kw)
         IN  /\ heap' = r.heap
             /\ dat2' = r.dict
             /\ dat' = r.self
             /\ kwargs' = o.kw
    /\ made' = "dat2"
    /\ dlast' = [NoDataCall EXCEPT !.op = "copy"]
    /\ UNCHANGED <<args, eqret, mutations>>
    /\ UNCHANGED rvars

change ==
    /\ made \in {"dat", "dat2"}
    /\ dlast.op # "eq"
    /\ mutations < MaxMutations
    /\ \E a \in 1..Len(heap) :
         /\ CanChange(heap[a])
         /\ heap' = [heap EXCEPT ![a] = Changed(@)]
         /\ dlast' = [NoDataCall EXCEPT !.op = "change", !.a = a]
    /\ mutations' = mutations + 1
    /\ UNCHANGED <<args, made, dat, dat2, kwargs, eqret>>
    /\ UNCHANGED rvars

\* the operand called x
Operand(x) == IF x = "dat" THEN Object(dat)
              ELSE IF x = "dat2" THEN Object(dat2)
              ELSE Scalar

eq(x, y) ==
    /\ made \in {"dat", "dat2"}
    /\ dlast.op # "eq"
    /\ "dat2" \in {x, y} => made = "dat2"
    /\ eqret' = EqResult(heap, Operand(x).dict, Operand(y))
    /\ dlast' = [NoDataCall EXCEPT !.op = "eq", !.x = x, !.y = y]
    /\ UNCHANGED <<heap, args, made, dat, dat2, kwargs, mutations>>
    /\ UNCHANGED rvars

NextData ==
    \/ construct
    \/ copy
    \/ change
    \/ \E x \in {"dat", "dat2"}, y \in {"dat", "dat2", "scalar"} : eq(x, y)

SpecData == InitData /\ [][NextData]_vars

\* the value get() would return in the current state
Get == Value(GetResult(data, full, idx), data)

\* the value the caller reads now from the object the last get() returned
RetValue == Value(ret, data)

TypeOK ==
    /\ length \in 1..MaxLength
    /\ idx \in 0..length
    /\ full \in BOOLEAN
    /\ Unallocated(data) \/ len(data) = length

(* ------------------------------- claims ------------------------------- *)
\* the last k elements of the sequence s
LastN(s, k) == SubSeq(s, Len(s) - k + 1, Len(s))

\* C1: while every batch appended had the record shape of the store, get()
\* returns the last min(N, length) records of the concatenation of all
\* appended batches, oldest first, N being the number of records appended.
C1_GetIsTailOfStream ==
    clean => Records(Get) = LastN(stream, Min(Len(stream), length))

C1_Witness ==
    /\ clean
    /\ Len(stream) > length
    /\ full
    /\ idx > 0
    /\ last.op = "get"
    /\ Records(RetValue) = LastN(stream, length)

\* C2: an append that raises leaves data, full and idx as they were, so that
\* get() returns the same value before and after the call.
C2_FailedAppendLeavesState ==
    [][(last'.op = "append" /\ last'.raised)
          => (data' = data /\ full' = full /\ idx' = idx /\ Get' = Get)]_vars

\* C3: once the store is allocated, every non-empty append whose record shape
\* differs from the store's raises; none is accepted and written.
C3_MismatchRaises ==
    [][(last'.op = "append" /\ last'.n > 0 /\ ~last'.matched) => last'.raised]_vars

\* C4: appending a batch with zero records changes neither data (an
\* unallocated store stays unallocated) nor full nor idx.
C4_EmptyAppendIsNoOp ==
    [][(last'.op = "append" /\ last'.n = 0)
          => (data' = data /\ full' = full /\ idx' = idx /\ Get' = Get)]_vars

C4_Witness ==
    /\ last.op = "append"
    /\ last.n = 0
    /\ Unallocated(data)
    /\ Get = EmptyArray

\* C5: in every state, an append of a batch of the store's record shape with
\* more than length records ends with full true and get() returning the last
\* length records of that batch, in order.
C5_OversizeKeepsTail ==
    \A b \in Batches :
        (len(b) > length /\ Matches(b)) =>
            \A g \in Garbage(b) :
                LET r == After(b, g)
                IN  /\ ~r.raised
                    /\ r.full
                    /\ Value(GetResult(r.data, r.full, r.idx), r.data)
                         = Slice(b, len(b) - length, len(b))

C5_Witness ==
    /\ last.op = "append"
    /\ last.n > length
    /\ last.matched
    /\ ~last.raised
    /\ idx > 0
    /\ full
    /\ clean
    /\ Records(Get) = LastN(stream, length)

\* C6: full is false on a fresh buffer, and no append or get turns a true
\* full back to false.
C6_FullIsPermanent == (full = FALSE) /\ [][full => full']_vars

C6_Witness ==
    /\ clean
    /\ full
    /\ Len(stream) = length + 1
    /\ idx = 1
    /\ last.op = "append"
    /\ last.n = 1

\* C7: get() leaves length, data, full and idx as they were, and a get()
\* right after a get() returns an equal value.
C7_GetIsPure ==
    [][(last'.op = "get")
          => /\ UNCHANGED <<length, data, full, idx>>
             /\ (last.op = "get" => RetValue' = RetValue)]_vars

C7_Witness ==
    /\ last.op = "get"
    /\ last.again
    /\ full
    /\ idx > 0
    /\ RetValue = Get

\* C8: get() returns 0 records while the store is unallocated, length records
\* when full is true, idx records when the store is allocated and full false.
C8_GetSize ==
    len(Get) = IF Unallocated(data) THEN 0 ELSE IF full THEN length ELSE idx

C8_Witness ==
    /\ last.op = "get"
    /\ ~Unallocated(data)
    /\ ~full
    /\ idx > 0
    /\ len(RetValue) = idx

\* C9: the store is allocated by the first non-empty append, with shape
\* [length] + the record shape of that batch, and by nothing else; once
\* allocated, no call changes its shape or its size; length never changes.
C9_StoreAllocatedOnce ==
    [][/\ length' = length
       /\ ~Unallocated(data) =>
            /\ ~Unallocated(data')
            /\ data'.shape = data.shape
            /\ Len(data'.flat) = Len(data.flat)
       /\ Unallocated(data) =>
            /\ ~Unallocated(data') <=> (last'.op = "append" /\ last'.n > 0)
            /\ ~Unallocated(data') =>
                 /\ data'.shape = <<length>> \o last'.shape
                 /\ Len(data'.flat) = length * Prod(last'.shape)]_vars

C9_Witness ==
    /\ ~Unallocated(data)
    /\ data.shape = <<length, 1>>
    /\ full
    /\ last.op = "append"
    /\ last.n > 0
    /\ ~last.raised
    /\ Len(stream) > length

\* C10: the value read from an object returned by get() is not changed by any
\* later append.
C10_ResultIsIndependent ==
    [][(last'.op = "append" /\ ret # Own(None)) => RetValue' = RetValue]_vars

C10_Witness ==
    /\ ret # Own(None)
    /\ last.op = "append"
    /\ last.n > 0
    /\ ~last.raised
    /\ full
    /\ len(RetValue) \in 1..(length - 1)
    /\ Get # RetValue

\* record k (0-based) of the array a
Row(a, k) == SubSeq(a.flat, k * RowSize(a) + 1, (k + 1) * RowSize(a))

\* C17: an append that returns normally and whose n records (after
\* truncation) end exactly at the buffer's end (idx + n = length) leaves full
\* true and idx 0; one with idx + n < length leaves full as it was and idx at
\* idx + n.
C17_ExactFitWraps ==
    [][(last'.op = "append" /\ ~last'.raised) =>
          LET n == Min(last'.n, length)
          IN  /\ idx + n = length => (full' /\ idx' = 0)
              /\ idx + n < length => (full' = full /\ idx' = idx + n)]_vars

C17_Witness ==
    /\ clean
    /\ last.op = "append"
    /\ ~last.raised
    /\ last.n \in 1..(length - 1)
    /\ Len(stream) = length
    /\ full
    /\ idx = 0

\* C18: in every state, an append of a batch of the store's record shape
\* whose n records (after truncation) reach the buffer's end (idx + n >=
\* length) writes, with l1 = length - idx and l2 = n - l1, its first l1
\* records to slots idx..length-1 and the other l2 to slots 0..l2-1, leaves
\* the slots l2..idx-1 as they were, and sets idx to l2.
C18_WrapWrite ==
    \A b \in Batches :
        LET n  == Min(len(b), length)
            b1 == Slice(b, len(b) - n, len(b))
            l1 == length - idx
            l2 == n - l1
        IN  (~IsEmpty(b) /\ Matches(b) /\ idx + n >= length) =>
                \A g \in Garbage(b) :
                    \A r \in {After(b, g)} :
                        /\ ~r.raised
                        /\ \A k \in 0..(l1 - 1) : Row(r.data, idx + k) = Row(b1, k)
                        /\ \A k \in 0..(l2 - 1) : Row(r.data, k) = Row(b1, l1 + k)
                        /\ \A k \in l2..(idx - 1) : Row(r.data, k) = Row(data, k)
                        /\ r.idx = l2

C18_Witness ==
    /\ clean
    /\ last.op = "append"
    /\ ~last.raised
    /\ length = 2
    /\ last.n = 2
    /\ Len(stream) = 3
    /\ full
    /\ idx = 1
    /\ Row(data, 1) = stream[2]
    /\ Row(data, 0) = stream[3]

\* C19: full is true exactly when at least length records were appended:
\* this holds of a fresh buffer, and every get and every append that returns
\* normally keeps it, so it holds in every state reached by such calls.
C19_FullIffLengthAppended ==
    /\ full <=> appended >= length
    /\ [][((last'.op = "append" => ~last'.raised) /\ (full <=> appended >= length))
             => (full' <=> appended' >= length)]_vars

C19_Witness ==
    /\ clean
    /\ length > 1
    /\ last.op = "append"
    /\ ~last.raised
    /\ last.n > 0
    /\ full
    /\ appended = length
    /\ Len(stream) = length

\* C20: idx is W mod length, W the sum of min(batch size, length) over the
\* appends that returned normally; so 0 <= idx < length, and length - idx >= 1.
C20_IdxIsWrittenModLength ==
    /\ idx = written
    /\ 0 <= idx
    /\ idx < length
    /\ length - idx >= 1

C20_Witness ==
    /\ last.op = "append"
    /\ ~last.raised
    /\ last.n > length
    /\ full
    /\ idx > 0
    /\ idx = written

\* the objects reachable from the object at address a
RECURSIVE Reach(_, _)
Reach(h, a) ==
    IF h[a].k = "refs"
    THEN {a} \cup UNION {Reach(h, h[a].items[i]) : i \in 1..Len(h[a].items)}
    ELSE {a}

\* the objects reachable from the attributes in dict
Storage(h, dict) == UNION {Reach(h, dict[x]) : x \in DOMAIN dict}

\* the value of the object at address a, whatever its identity
RECURSIVE DeepValue(_, _)
DeepValue(h, a) ==
    IF h[a].k = "refs"
    THEN [k |-> "refs", items |-> [i \in 1..Len(h[a].items) |-> DeepValue(h, h[a].items[i])]]
    ELSE [k |-> h[a].k, items |-> <<h[a].shape, h[a].flat, h[a].items>>]

\* the values of the attributes in dict
InstanceValue(h, dict) == [x \in DOMAIN dict |-> DeepValue(h, dict[x])]

\* C11: Data(data, axes, names, units) returns an instance exactly when
\* data.ndim = len(axes) = len(names) = len(units) and len(axes[i]) =
\* data.shape[i] for every dimension i; otherwise it raises and there is no
\* instance.  The instance made has len(axes[i]) = data.shape[i] for every i.
C11_ConstructionValidates ==
    dlast.op = "construct" =>
        LET shape == heap[args.data].shape
            axes == heap[args.axes].items
            valid == /\ Len(shape) = Len(axes)
                     /\ Len(shape) = Len(heap[args.names].items)
                     /\ Len(shape) = Len(heap[args.units].items)
                     /\ \A i \in 1..Len(shape) : Len(heap[axes[i]].items) = shape[i]
        IN  /\ made = (IF valid THEN "dat" ELSE "raised")
            /\ made = "raised" => DOMAIN dat = {}
            /\ made = "dat" =>
                 /\ Len(heap[dat.axes].items) = Len(heap[dat.data].shape)
                 /\ \A i \in 1..Len(heap[dat.data].shape) :
                      CellLen(Axis(heap, dat.axes, i)) = heap[dat.data].shape[i]

C11_Witness ==
    /\ dlast.op = "construct"
    /\ made = "raised"
    /\ Len(heap[args.data].shape) = 1
    /\ Len(heap[args.axes].items) = 1
    /\ Len(heap[args.names].items) = 1
    /\ Len(heap[args.units].items) = 1
    /\ Len(heap[heap[args.axes].items[1]].items) # heap[args.data].shape[1]

\* C12: the instance returned by copy shares no object with self or with
\* the values passed as overrides: changing in place an object of the copy
\* (its data, its axes, its names, its units) never changes the value of
\* self, and changing in place a value that was passed as override never
\* changes the value of the copy.
C12_CopyIsIndependent ==
    /\ [](made = "dat2" =>
            Storage(heap, dat2) \cap (Storage(heap, dat) \cup Storage(heap, kwargs)) = {})
    /\ [][(made = "dat2" /\ dlast'.op = "change") =>
            /\ dlast'.a \in Storage(heap, dat2) =>
                 InstanceValue(heap', dat) = InstanceValue(heap, dat)
            /\ dlast'.a \in Storage(heap, kwargs) =>
                 InstanceValue(heap', dat2) = InstanceValue(heap, dat2)]_vars

C12_Witness ==
    /\ made = "dat2"
    /\ DOMAIN kwargs = {"axes"}
    /\ dlast.op = "change"
    /\ dlast.a \in Reach(heap, dat2.axes) \ {dat2.axes}
    /\ DeepValue(heap, dat2.axes) # DeepValue(heap, kwargs.axes)
    /\ DeepValue(heap, kwargs.axes) = DeepValue(heap, dat.axes)

\* C13: for an instance dat as constructed, dat2 = dat.copy() without
\* overrides is equal to dat: dat2 == dat and dat == dat2 return True.
C13_CopyEqualsOriginal ==
    (/\ dlast.op = "eq"
     /\ {dlast.x, dlast.y} = {"dat", "dat2"}
     /\ DOMAIN kwargs = {}
     /\ mutations = 0)
        => eqret = "True"

\* C14: dat2 = dat.copy(**kwargs) has every attribute named in kwargs with a
\* value equal to the one given and every other attribute of dat with a value
\* equal to dat's, and the call changes no attribute of dat.
C14_CopyAppliesOverrides ==
    /\ [](dlast.op = "copy" =>
            /\ DOMAIN dat2 = DOMAIN dat \cup DOMAIN kwargs
            /\ \A x \in DOMAIN kwargs :
                 DeepValue(heap, dat2[x]) = DeepValue(heap, kwargs[x])
            /\ \A x \in DOMAIN dat \ DOMAIN kwargs :
                 DeepValue(heap, dat2[x]) = DeepValue(heap, dat[x]))
    /\ [][dlast'.op = "copy" =>
            /\ dat' = dat
            /\ InstanceValue(heap', dat) = InstanceValue(heap, dat)]_vars

C14_Witness ==
    /\ dlast.op = "copy"
    /\ DOMAIN kwargs = {"names", "extra"}
    /\ heap[dat2.names].items = <<"other">>
    /\ heap[dat.names].items = Names(1)
    /\ heap[dat2.units].items = Units(1)
    /\ heap[dat2.extra].items = <<"note">>

\* C15: x == y on a Data instance x never raises, whatever y is, copies made
\* with overrides (a new attribute, axes that are no arrays, another number
\* of axes) included: it returns True or False.
C15_EqNeverRaises ==
    dlast.op = "eq" => eqret \in {"True", "False"}

\* the axes of the two instances are lists of arrays
ArrayAxes ==
    /\ \A i \in 1..CellLen(heap[dat.axes]) : HasShape(heap, dat.axes, i)
    /\ \A i \in 1..CellLen(heap[dat2.axes]) : HasShape(heap, dat2.axes, i)

\* the instances x and y have the same attribute names, data of the same
\* shape and elements, as many axes, pairwise of the same shape and
\* elements, the same names and the same units
Identical(x, y) ==
    /\ DOMAIN x = DOMAIN y
    /\ heap[x.data].shape = heap[y.data].shape
    /\ heap[x.data].flat = heap[y.data].flat
    /\ Len(heap[x.axes].items) = Len(heap[y.axes].items)
    /\ \A i \in 1..Len(heap[x.axes].items) :
         /\ Axis(heap, x.axes, i).shape = Axis(heap, y.axes, i).shape
         /\ Axis(heap, x.axes, i).flat = Axis(heap, y.axes, i).flat
    /\ heap[x.names].items = heap[y.names].items
    /\ heap[x.units].items = heap[y.units].items

\* C16: two Data instances (with arrays as axes) compare equal if and only
\* if they have the same attribute names, identical data (shape and
\* elements), as many axes, pairwise identical in shape and elements,
\* identical names and identical units.
C16_EqualIffIdentical ==
    (dlast.op = "eq" /\ dlast.y # "scalar" /\ made = "dat2" /\ ArrayAxes) =>
        (eqret = "True" <=> Identical(Operand(dlast.x).dict, Operand(dlast.y).dict))

====
